---- MODULE Spec2Model ----
(***************************************************************************)
(* Model of the client-side persisted history store (lib/upload.tsx:       *)
(* saveToStorage, getFromStorage, removeFromStorage over localStorage),    *)
(* the upload flow (uploadImage) and the two page components that drive    *)
(* them (AgeDetectionPage, ScreenshotCapture).                             *)
(***************************************************************************)
EXTENDS Integers, Sequences, FiniteSets, Bags, TLC

VARIABLES
    storage,    \* localStorage: key -> raw text (a token sequence) or Absent
    hkey,       \* store harness: the key the caller works on
    last,       \* store harness: the last store call, its arguments and result
    log,        \* ghost: records appended since the key was last absent
    drain,      \* ghost: the run of successful remove(key, 0) calls
    resp,       \* upload harness: the HTTP response handed to uploadImage
    upl,        \* upload harness: the outcome of uploadImage
    page,       \* pages: which page component is mounted
    agePage,    \* pages: the React state of AgeDetectionPage
    shotPage,   \* pages: the React state of ScreenshotCapture
    tasks       \* pages: the bag of suspended async handlers, each with what
                \* its closure captured

harnessVars == <<hkey, last, log, drain, resp, upl>>
pageVars == <<page, agePage, shotPage, tasks>>
vars == <<storage, hkey, last, log, drain, resp, upl, page, agePage, shotPage, tasks>>

(***************************************************************************)
(* Bounds of the model.                                                    *)
(***************************************************************************)
\* Longest record sequence a key holds.
MaxLen == 3
\* Longest raw text (in tokens) that foreign code writes under a key.
MaxRaw == 2
\* Longest history a page builds up.
MaxHistory == 2
\* Most async handlers a page has suspended at once.
MaxTasks == 2

(***************************************************************************)
(* JavaScript values of record fields: a type tag and the literal text.    *)
(***************************************************************************)
Str(s) == [ty |-> "string", s |-> s]
Num(s) == [ty |-> "number", s |-> s]
NaN == [ty |-> "nan", s |-> ""]
Null == [ty |-> "null", s |-> ""]
Undefined == [ty |-> "undefined", s |-> ""]

\* Strings that new URL(...) accepts, and strings it rejects.
UrlStrings == {"https://a.example", "https://b.example"}
\* Strings of the form toISOString() produces (what z.string().datetime() accepts).
ISOStrings == <<"2025-01-01T00:00:00.001Z", "2025-01-01T00:00:00.002Z",
                "2025-01-01T00:00:00.003Z">>
DatetimeStrings == {ISOStrings[i] : i \in DOMAIN ISOStrings}

\* A JavaScript object with the fields of either record kind; a field the
\* object does not have is Undefined.
Obj(input, age, predictTime, imageData, createdAt) ==
    [input |-> input, age |-> age, predictTime |-> predictTime,
     imageData |-> imageData, createdAt |-> createdAt]
NoObj == Obj(Undefined, Undefined, Undefined, Undefined, Undefined)

STORAGE_KEY == "magicapi_screenshot"
AGE_DETECTION_STORAGE_KEY == "magicapi_age_detection"
Keys == {STORAGE_KEY, AGE_DETECTION_STORAGE_KEY}

(***************************************************************************)
(* Schema validators (zod): z.array(z.object({...})).                      *)
(***************************************************************************)
IsString(v) == v.ty = "string"
IsNumber(v) == v.ty = "number"
IsUrl(v) == IsString(v) /\ v.s \in UrlStrings
IsDatetime(v) == IsString(v) /\ v.s \in DatetimeStrings

screenshotItemOk(o) ==
    /\ IsUrl(o.input)
    /\ IsString(o.imageData)
    /\ IsDatetime(o.createdAt)

ageDetectionItemOk(o) ==
    /\ IsString(o.age)
    /\ IsNumber(o.predictTime)
    /\ IsString(o.imageData)
    /\ IsDatetime(o.createdAt)

\* z.object strips the keys the schema does not name.
screenshotStrip(o) == Obj(o.input, Undefined, Undefined, o.imageData, o.createdAt)
ageDetectionStrip(o) == Obj(Undefined, o.age, o.predictTime, o.imageData, o.createdAt)

ItemOk(validator, o) ==
    IF validator = "screenshotValidator" THEN screenshotItemOk(o)
    ELSE ageDetectionItemOk(o)
Strip(validator, o) ==
    IF validator = "screenshotValidator" THEN screenshotStrip(o)
    ELSE ageDetectionStrip(o)

ValidatorOf(key) ==
    IF key = STORAGE_KEY THEN "screenshotValidator" ELSE "ageDetectionResultValidator"

(***************************************************************************)
(* JSON text as a sequence of tokens.                                      *)
(***************************************************************************)
Tok(t) == [t |-> t, o |-> NoObj]
LB == Tok("[")
RB == Tok("]")
Comma == Tok(",")
NullTok == Tok("null")
Junk == Tok("junk")
ObjTok(o) == [t |-> "obj", o |-> o]

\* JSON.stringify of one field value: NaN is written as null.
StringifyValue(v) == IF v.ty = "nan" THEN Null ELSE v
StringifyObj(o) ==
    Obj(StringifyValue(o.input), StringifyValue(o.age), StringifyValue(o.predictTime),
        StringifyValue(o.imageData), StringifyValue(o.createdAt))

RECURSIVE StringifyItems(_)
StringifyItems(items) ==
    IF Len(items) = 0 THEN <<>>
    ELSE IF Len(items) = 1 THEN <<ObjTok(StringifyObj(items[1]))>>
    ELSE <<ObjTok(StringifyObj(items[1])), Comma>> \o StringifyItems(Tail(items))

\* JSON.stringify(newItems) for an array of objects.
JSONStringify(items) == <<LB>> \o StringifyItems(items) \o <<RB>>

\* A parsed JSON value, one level deep: k is "array", "object" or "null";
\* the elements of a nested array are not kept (no schema looks at them).
Parsed(ok, next, k, o, items) ==
    [ok |-> ok, next |-> next, k |-> k, o |-> o, items |-> items]
ParseFail == Parsed(FALSE, 0, "null", NoObj, <<>>)
Elem(k, o) == [k |-> k, o |-> o]

RECURSIVE ParseValue(_, _)
RECURSIVE ParseElems(_, _, _)
\* The JSON value that starts at token i.
ParseValue(text, i) ==
    IF i > Len(text) THEN ParseFail
    ELSE IF text[i].t = "null" THEN Parsed(TRUE, i + 1, "null", NoObj, <<>>)
    ELSE IF text[i].t = "obj" THEN Parsed(TRUE, i + 1, "object", text[i].o, <<>>)
    ELSE IF text[i].t = "["
    THEN IF i + 1 <= Len(text) /\ text[i + 1].t = "]"
         THEN Parsed(TRUE, i + 2, "array", NoObj, <<>>)
         ELSE ParseElems(text, i + 1, <<>>)
    ELSE ParseFail
\* The elements of an array from token i on, after the elements in acc.
ParseElems(text, i, acc) ==
    LET v == ParseValue(text, i) IN
    IF ~v.ok \/ v.next > Len(text) THEN ParseFail
    ELSE IF text[v.next].t = "]"
    THEN Parsed(TRUE, v.next + 1, "array", NoObj, Append(acc, Elem(v.k, v.o)))
    ELSE IF text[v.next].t = ","
    THEN ParseElems(text, v.next + 1, Append(acc, Elem(v.k, v.o)))
    ELSE ParseFail

\* JSON.parse(storedData): fails (throws) unless the whole text is one value.
JSONParse(text) ==
    LET v == ParseValue(text, 1) IN
    IF v.ok /\ v.next = Len(text) + 1 THEN v ELSE ParseFail

\* safeParse that keeps the elements that satisfy the schema and drops the rest.
safeParse_filter(validator, v) ==
    LET keep == {i \in DOMAIN v.items :
                    v.items[i].k = "object" /\ ItemOk(validator, v.items[i].o)}
        F[n \in 0..Len(v.items)] ==
            IF n = 0 THEN <<>>
            ELSE IF n \in keep THEN Append(F[n - 1], Strip(validator, v.items[n].o))
            ELSE F[n - 1]
    IN [success |-> v.k = "array", data |-> IF v.k = "array" THEN F[Len(v.items)] ELSE <<>>]

\* validator.safeParse(parsedData): success only for an array whose every
\* element is an object that satisfies the schema.
safeParse(validator, v) ==
    LET good == /\ v.k = "array"
                /\ \A i \in DOMAIN v.items :
                      v.items[i].k = "object" /\ ItemOk(validator, v.items[i].o)
    IN [success |-> good,
        data |-> IF good THEN [i \in DOMAIN v.items |-> Strip(validator, v.items[i].o)]
                 ELSE <<>>]

(***************************************************************************)
(* localStorage.                                                           *)
(***************************************************************************)
Absent == <<Tok("absent")>>
getItem(st, key) == st[key]
removeItem(st, key) == [st EXCEPT ![key] = Absent]
setItem(st, key, text) == [st EXCEPT ![key] = text]

\* A store call's outcome: the storage afterwards and the returned sequence.
Out(st, ret) == [st |-> st, ret |-> ret]

\* getFromStorage that returns the parsed array without validating it.
getFromStorage_noValidation(st, key, validator) ==
    LET storedData == getItem(st, key) IN
    IF storedData = Absent \/ storedData = <<>> THEN Out(st, <<>>)
    ELSE LET parsedData == JSONParse(storedData) IN
         IF ~parsedData.ok THEN Out(removeItem(st, key), <<>>)
         ELSE Out(st, [i \in DOMAIN parsedData.items |-> parsedData.items[i].o])

getFromStorage(st, key, validator) ==
    LET storedData == getItem(st, key) IN
    IF storedData = Absent \/ storedData = <<>> THEN Out(st, <<>>)
    ELSE LET parsedData == JSONParse(storedData) IN
         IF ~parsedData.ok THEN Out(removeItem(st, key), <<>>)
         ELSE LET validationResult == safeParse(validator, parsedData) IN
              IF validationResult.success THEN Out(st, validationResult.data)
              ELSE Out(removeItem(st, key), <<>>)

\* saveToStorage with the new item put last instead of first.
saveToStorage_appendLast(st, key, item, validator, writeOk) ==
    LET got == getFromStorage(st, key, validator)
        newItems == got.ret \o <<item>>
    IN IF writeOk THEN Out(setItem(got.st, key, JSONStringify(newItems)), newItems)
       ELSE Out(got.st, <<item>>)

\* saveToStorage whose catch block returns the list it failed to write.
saveToStorage_failReturnsAll(st, key, item, validator, writeOk) ==
    LET got == getFromStorage(st, key, validator)
        newItems == <<item>> \o got.ret
    IN IF writeOk THEN Out(setItem(got.st, key, JSONStringify(newItems)), newItems)
       ELSE Out(got.st, newItems)

\* writeOk = FALSE: localStorage.setItem throws (quota exceeded).
saveToStorage(st, key, item, validator, writeOk) ==
    LET got == getFromStorage(st, key, validator)
        existingItems == got.ret
        newItems == <<item>> \o existingItems
    IN IF writeOk THEN Out(setItem(got.st, key, JSONStringify(newItems)), newItems)
       ELSE Out(got.st, <<item>>)

\* Array.prototype.slice(start, end) on a 0-based array.
SliceIndex(len, x) ==
    IF x < 0 THEN (IF len + x < 0 THEN 0 ELSE len + x)
    ELSE (IF x > len THEN len ELSE x)
Slice(items, start, end) ==
    SubSeq(items, SliceIndex(Len(items), start) + 1, SliceIndex(Len(items), end))

\* removeFromStorage with items.slice(index) for items.slice(index + 1).
removeFromStorage_offByOne(st, key, index, validator, writeOk) ==
    LET got == getFromStorage(st, key, validator)
        items == got.ret
        newItems == Slice(items, 0, index) \o Slice(items, index, Len(items))
    IN IF writeOk THEN Out(setItem(got.st, key, JSONStringify(newItems)), newItems)
       ELSE getFromStorage(got.st, key, validator)

\* removeFromStorage whose catch block returns the list it failed to write.
removeFromStorage_failReturnsNew(st, key, index, validator, writeOk) ==
    LET got == getFromStorage(st, key, validator)
        items == got.ret
        newItems == Slice(items, 0, index) \o Slice(items, index + 1, Len(items))
    IN Out(IF writeOk THEN setItem(got.st, key, JSONStringify(newItems)) ELSE got.st,
           newItems)

removeFromStorage(st, key, index, validator, writeOk) ==
    LET got == getFromStorage(st, key, validator)
        items == got.ret
        newItems == Slice(items, 0, index) \o Slice(items, index + 1, Len(items))
    IN IF writeOk THEN Out(setItem(got.st, key, JSONStringify(newItems)), newItems)
       ELSE getFromStorage(got.st, key, validator)

(***************************************************************************)
(* The upload flow: uploadImage applied to the HTTP response fetch gives.  *)
(***************************************************************************)
\* An HTTP response: its status code, whether the body is a JSON object,
\* the JSON value null, no JSON at all or image bytes, and the fields of the
\* JSON object (metrics = FALSE: the object has no metrics field).
HttpResponse(status, body, bodyStatus, result, error, output, metrics, predict_time, blob) ==
    [status |-> status, body |-> body, bodyStatus |-> bodyStatus, result |-> result,
     error |-> error, output |-> output, metrics |-> metrics,
     predict_time |-> predict_time, blob |-> blob]
Response(status, body, bodyStatus, result) ==
    HttpResponse(status, body, bodyStatus, result, Undefined, Undefined, FALSE, Undefined, "")
NoResp == Response(0, "notjson", Undefined, Undefined)
\* response.ok
ResponseOk(r) == 200 <= r.status /\ r.status <= 299

\* JavaScript truthiness of a field value.
Truthy(v) ==
    \/ v.ty = "string" /\ v.s # ""
    \/ v.ty = "number" /\ v.s # "0"

\* The outcome of an async call: a returned value or a thrown Error.
Returned(value) == [done |-> TRUE, thrown |-> FALSE, value |-> value, message |-> ""]
Thrown(message) == [done |-> TRUE, thrown |-> TRUE, value |-> Undefined, message |-> message]
NoUpl == [done |-> FALSE, thrown |-> FALSE, value |-> Undefined, message |-> ""]

UploadFailedStatus(status) ==
    IF status = 404 THEN "Upload failed: 404" ELSE "Upload failed: 500"

\* uploadImage without the response.ok test.
uploadImage_noOkCheck(response) ==
    IF response.body = "notjson" THEN Thrown("SyntaxError")
    ELSE IF response.body = "null" THEN Thrown("TypeError")
    ELSE IF response.bodyStatus # Str("OK") \/ ~Truthy(response.result)
    THEN Thrown("Upload failed: Invalid response")
    ELSE Returned(response.result)

uploadImage(response) ==
    IF ~ResponseOk(response) THEN Thrown(UploadFailedStatus(response.status))
    ELSE IF response.body = "notjson" THEN Thrown("SyntaxError")
    ELSE IF response.body = "null" THEN Thrown("TypeError")
    ELSE IF response.bodyStatus # Str("OK") \/ ~Truthy(response.result)
    THEN Thrown("Upload failed: Invalid response")
    ELSE Returned(response.result)

HttpStatuses == {200, 201, 404, 500}
UploadBodyStatuses == {Str("OK"), Str("FAILED"), Str("ok"), Null, Undefined}
UploadResults == {Str("abc123"), Str("xyz789"), Str(""), Null, Undefined}
UploadResponses ==
    {Response(c, "object", bs, r) :
        c \in HttpStatuses, bs \in UploadBodyStatuses, r \in UploadResults}
    \cup {Response(c, b, Undefined, Undefined) :
            c \in HttpStatuses, b \in {"null", "notjson"}}

(***************************************************************************)
(* The page components: React state, and the async handlers as tasks that  *)
(* keep the values their closure captured when the handler started.        *)
(***************************************************************************)
\* useState<number | null>(null): no entry is expanded.
NoIndex == -1
NoFile == "none"
Files == {"f1", "f2"}
\* fileToBase64(file): the data URL of the file's bytes.
fileToBase64(file) == Str(IF file = "f1" THEN "data:f1" ELSE "data:f2")
\* The reference the upload endpoint hands out for a file.
RemoteRef(file) == Str(IF file = "f1" THEN "ref:f1" ELSE "ref:f2")
\* blobToBase64(blob): the data URL of the response's image bytes.
blobToBase64(blob) == Str(IF blob = "png:a" THEN "data:png:a" ELSE "data:png:b")

NoResult == [set |-> FALSE, age |-> Undefined, predictTime |-> Undefined,
             imageData |-> Undefined]
Result(a, predictTime, imageData) ==
    [set |-> TRUE, age |-> a, predictTime |-> predictTime, imageData |-> imageData]

AgeState(history) ==
    [file |-> NoFile, imageData |-> Null, processingState |-> "idle",
     result |-> NoResult, error |-> Null, uploadedImageUrl |-> Null,
     history |-> history, expandedIndex |-> NoIndex]
ShotState(items) ==
    [apiKey |-> "", url |-> "", screenshotState |-> "idle", currentImageData |-> Null,
     error |-> Null, items |-> items, expandedIndex |-> NoIndex]

Task(kind, pc, file, imageData, imageUrl, url, blob) ==
    [kind |-> kind, pc |-> pc, file |-> file, imageData |-> imageData,
     imageUrl |-> imageUrl, url |-> url, blob |-> blob]

PagesIdle ==
    /\ page = "none"
    /\ agePage = AgeState(<<>>)
    /\ shotPage = ShotState(<<>>)
    /\ tasks = EmptyBag

\* detectAge returning output and predict_time in each other's field.
detectAge_swapped(response, imageData) ==
    IF ~ResponseOk(response)
    THEN Thrown(IF response.status = 404 THEN "Detection failed: 404"
                ELSE "Detection failed: 500")
    ELSE IF response.body = "notjson" THEN Thrown("SyntaxError")
    ELSE IF response.body = "null" THEN Thrown("TypeError")
    ELSE IF response.bodyStatus # Str("succeeded") \/ Truthy(response.error)
    THEN Thrown(IF Truthy(response.error) THEN response.error.s ELSE "Detection failed")
    ELSE IF ~Truthy(imageData) THEN Thrown("Image data is missing")
    ELSE IF ~response.metrics THEN Thrown("TypeError")
    ELSE [done |-> TRUE, thrown |-> FALSE, message |-> "",
          value |-> Result(response.predict_time, response.output, imageData)]

\* detectAge(imageUrl) from the response on, with the imageData its closure holds.
detectAge(response, imageData) ==
    IF ~ResponseOk(response)
    THEN Thrown(IF response.status = 404 THEN "Detection failed: 404"
                ELSE "Detection failed: 500")
    ELSE IF response.body = "notjson" THEN Thrown("SyntaxError")
    ELSE IF response.body = "null" THEN Thrown("TypeError")
    ELSE IF response.bodyStatus # Str("succeeded") \/ Truthy(response.error)
    THEN Thrown(IF Truthy(response.error) THEN response.error.s ELSE "Detection failed")
    ELSE IF ~Truthy(imageData) THEN Thrown("Image data is missing")
    ELSE IF ~response.metrics THEN Thrown("TypeError")
    ELSE [done |-> TRUE, thrown |-> FALSE, message |-> "",
          value |-> Result(response.output, response.predict_time, imageData)]

\* isValidUrl: url.trim() !== "" && Boolean(new URL(url))
trim(str) == IF str = "  " THEN "" ELSE str
isValidUrl(url) == trim(url) # "" /\ url \in UrlStrings

\* The responses of the remote API that the pages are run against.
PageUploadResponses(file) ==
    {Response(200, "object", Str("OK"), RemoteRef(file)),
     Response(200, "object", Str("FAILED"), Undefined),
     Response(500, "notjson", Undefined, Undefined)}
DetectResponse(status, body, bodyStatus, error, output, metrics, predict_time) ==
    HttpResponse(status, body, bodyStatus, Undefined, error, output, metrics, predict_time, "")
DetectResponses ==
    {DetectResponse(200, "object", Str("succeeded"), Null, Str("34"), TRUE, Num("1.2")),
     DetectResponse(200, "object", Str("succeeded"), Str(""), Str("34"), TRUE, Num("1.2")),
     DetectResponse(200, "object", Str("failed"), Str("no face"), Null, TRUE, Num("1.2")),
     DetectResponse(500, "notjson", Undefined, Undefined, Undefined, FALSE, Undefined)}
ScreenshotResponse(status, blob) ==
    HttpResponse(status, "blob", Undefined, Undefined, Undefined, Undefined, FALSE,
                 Undefined, blob)
ScreenshotResponses ==
    {ScreenshotResponse(200, "png:a"), ScreenshotResponse(404, ""),
     ScreenshotResponse(500, "")}
ApiErrorMessage(status) ==
    IF status = 404 THEN "API Error: 404 Not Found"
    ELSE "API Error: 500 Internal Server Error"

\* new Date().toISOString() at clock value t.
toISOString(t) == Str(ISOStrings[t])
ClockValues == 1..2
\* new Date(createdAt).getTime(): the position of the string on the clock.
getTime(createdAt) == CHOOSE t \in DOMAIN ISOStrings : ISOStrings[t] = createdAt.s
\* [...history].sort((a, b) => getTime(b.createdAt) - getTime(a.createdAt)):
\* newest first, records of equal time in the order of the history.
RECURSIVE sortedHistory(_)
sortedHistory(history) ==
    IF history = <<>> THEN <<>>
    ELSE LET newest == CHOOSE i \in DOMAIN history :
                           /\ \A j \in DOMAIN history :
                                  getTime(history[j].createdAt) <= getTime(history[i].createdAt)
                           /\ \A j \in 1..(i - 1) :
                                  getTime(history[j].createdAt) < getTime(history[i].createdAt)
         IN <<history[newest]>> \o
            sortedHistory(SubSeq(history, 1, newest - 1) \o
                          SubSeq(history, newest + 1, Len(history)))

(***************************************************************************)
(* Store harness: a caller that applies the three store operations to one  *)
(* key, with records of the key's kind (valid and invalid ones), while     *)
(* foreign code may overwrite the raw text under the key.                  *)
(***************************************************************************)
Read(st, key) == getFromStorage(st, key, ValidatorOf(key)).ret

ScreenshotInputs ==
    {Obj(Str("https://a.example"), Undefined, Undefined, Str("data:a"), Str(ISOStrings[1])),
     Obj(Str("https://b.example"), Undefined, Undefined, Str("data:b"), Str(ISOStrings[2])),
     Obj(Str("https://a.example"), Undefined, Undefined, Str("data:a"), Str("yesterday")),
     Obj(Str("not a url"), Undefined, Undefined, Str("data:b"), Str(ISOStrings[1]))}
AgeInputs ==
    {Obj(Undefined, Str("34"), Num("1.2"), Str("data:a"), Str(ISOStrings[1])),
     Obj(Undefined, Str("7"), Num("0.5"), Str("data:b"), Str(ISOStrings[2])),
     Obj(Undefined, Str("34"), Num("1.2"), Str("data:a"), Str("yesterday")),
     Obj(Undefined, Str("7"), NaN, Str("data:b"), Str(ISOStrings[1]))}
InputsOf(key) == IF key = STORAGE_KEY THEN ScreenshotInputs ELSE AgeInputs
ValidInputsOf(key) == {o \in InputsOf(key) : ItemOk(ValidatorOf(key), o)}

\* The raw texts foreign code may leave under a key: every token sequence of
\* at most MaxRaw tokens, bare or between brackets.
RawAlphabet(key) ==
    {LB, RB, Comma, NullTok, Junk,
     ObjTok(CHOOSE o \in InputsOf(key) : ItemOk(ValidatorOf(key), o))}
ShortTexts(key) ==
    UNION {[1..n -> RawAlphabet(key)] : n \in 0..MaxRaw}
RawTexts(key) ==
    ShortTexts(key) \cup {<<LB>> \o t \o <<RB>> : t \in ShortTexts(key)}

NoCall == [op |-> "none", idx |-> 0, item |-> NoObj, writeOk |-> TRUE,
           ret |-> <<>>, raw |-> Absent, before |-> <<>>]
Call(op, idx, item, writeOk, ret) ==
    [op |-> op, idx |-> idx, item |-> item, writeOk |-> writeOk, ret |-> ret,
     raw |-> IF op = "get" THEN storage[hkey] ELSE Absent,
     before |-> Read(storage, hkey)]

NoLog == [tracking |-> FALSE, items |-> <<>>]
EmptyLog == [tracking |-> TRUE, items |-> <<>>]
NoDrain == [on |-> FALSE, start |-> <<>>, n |-> 0]


StoreInit ==
    /\ hkey \in Keys
    /\ storage = [k \in Keys |-> Absent]
    /\ last = NoCall
    /\ log = EmptyLog
    /\ drain = NoDrain
    /\ resp = NoResp
    /\ upl = NoUpl
    /\ PagesIdle

\* The log restarts whenever the key is absent after a call.
LogAfter(st, l) == IF st[hkey] = Absent THEN EmptyLog ELSE l

Save(item, writeOk) ==
    /\ Len(Read(storage, hkey)) < MaxLen
    /\ LET out == saveToStorage(storage, hkey, item, ValidatorOf(hkey), writeOk) IN
       /\ storage' = out.st
       /\ last' = Call("save", 0, item, writeOk, out.ret)
       /\ log' = IF writeOk /\ ItemOk(ValidatorOf(hkey), item) /\ log.tracking
                 THEN [log EXCEPT !.items = <<item>> \o @]
                 ELSE LogAfter(out.st, NoLog)
    /\ drain' = NoDrain
    /\ UNCHANGED <<hkey, resp, upl, pageVars>>

Get ==
    /\ LET out == getFromStorage(storage, hkey, ValidatorOf(hkey)) IN
       /\ storage' = out.st
       /\ last' = Call("get", 0, NoObj, TRUE, out.ret)
       /\ log' = LogAfter(out.st, log)
    /\ UNCHANGED <<hkey, drain, resp, upl, pageVars>>

Remove(index, writeOk) ==
    /\ LET out == removeFromStorage(storage, hkey, index, ValidatorOf(hkey), writeOk) IN
       /\ Len(out.ret) <= MaxLen
       /\ storage' = out.st
       /\ last' = Call("remove", index, NoObj, writeOk, out.ret)
       /\ log' = LogAfter(out.st, NoLog)
       /\ drain' = IF writeOk /\ index = 0
                   THEN IF drain.on
                        THEN [drain EXCEPT !.n = IF @ < Len(drain.start) THEN @ + 1 ELSE @]
                        ELSE [on |-> TRUE, start |-> Read(storage, hkey), n |-> 1]
                   ELSE NoDrain
    /\ UNCHANGED <<hkey, resp, upl, pageVars>>

\* Foreign code replaces the raw text under the key.
Tamper(text) ==
    /\ storage' = [storage EXCEPT ![hkey] = text]
    /\ last' = [NoCall EXCEPT !.op = "tamper"]
    /\ log' = NoLog
    /\ drain' = NoDrain
    /\ UNCHANGED <<hkey, resp, upl, pageVars>>

StoreNext ==
    \/ \E item \in InputsOf(hkey), writeOk \in BOOLEAN : Save(item, writeOk)
    \/ Get
    \/ \E index \in -(MaxLen + 1)..(MaxLen + 1), writeOk \in BOOLEAN : Remove(index, writeOk)
    \/ \E text \in RawTexts(hkey) : Tamper(text)

Spec == StoreInit /\ [][StoreNext]_vars

(***************************************************************************)
(* Properties of the store.                                                *)
(***************************************************************************)
Valid(key, o) == ItemOk(ValidatorOf(key), o)
\* s without the element at 0-based position i.
Excise(s, i) == [j \in 1..(Len(s) - 1) |-> IF j <= i THEN s[j] ELSE s[j + 1]]
InRange(i, s) == 0 <= i /\ i < Len(s)

\* C1: starting from an absent key, after appends of schema-valid records whose
\* writes all succeed, a read of the key returns exactly the appended records,
\* each once, most recently appended first.
C1_AppendsReadBack ==
    log.tracking =>
        /\ Read(storage, hkey) = log.items
        /\ last.op = "get" => last.ret = log.items
C1_Witness ==
    /\ log.tracking
    /\ Len(log.items) = 3
    /\ log.items[1] # log.items[2]
    /\ last.op = "get"
    /\ last.ret = log.items

\* C2: for a valid stored sequence s and 0 <= i < Len(s), remove(key, i) whose
\* write succeeds returns, and leaves for the next read, s with exactly the
\* element at position i excised; remove(key, 0) repeated Len(s) times drains
\* the sequence to empty.
C2_RemoveExcises ==
    /\ (last.op = "remove" /\ last.writeOk /\ InRange(last.idx, last.before)) =>
          /\ Read(storage, hkey) = Excise(last.before, last.idx)
          /\ last.ret = Excise(last.before, last.idx)
    /\ drain.on =>
          /\ Read(storage, hkey) = SubSeq(drain.start, drain.n + 1, Len(drain.start))
          /\ drain.n = Len(drain.start) => Read(storage, hkey) = <<>>
C2_Witness ==
    /\ last.op = "remove"
    /\ last.writeOk
    /\ Len(last.before) = 3
    /\ last.idx = 1
    /\ last.before[1] # last.before[3]

\* C3: for every raw text present under a key that is not parseable as JSON,
\* read returns the empty sequence and afterwards the key is absent.
C3_UnparseableRemoved ==
    (last.op = "get" /\ last.raw # Absent /\ ~JSONParse(last.raw).ok) =>
        /\ last.ret = <<>>
        /\ storage[hkey] = Absent

\* C4: validation of a stored collection is all-or-nothing: a stored JSON array
\* with at least one element that fails the schema makes read return the empty
\* sequence and remove the key; read never returns a non-empty proper subset
\* of the stored elements.
HasBadElement(key, v) ==
    \E i \in DOMAIN v.items : ~(v.items[i].k = "object" /\ Valid(key, v.items[i].o))
C4_AllOrNothing ==
    (last.op = "get" /\ last.raw # Absent /\ JSONParse(last.raw).ok
        /\ JSONParse(last.raw).k = "array") =>
        /\ HasBadElement(hkey, JSONParse(last.raw)) =>
              last.ret = <<>> /\ storage[hkey] = Absent
        /\ last.ret = <<>> \/ Len(last.ret) = Len(JSONParse(last.raw).items)
C4_Witness ==
    /\ last.op = "get"
    /\ last.raw # Absent
    /\ JSONParse(last.raw).ok
    /\ Len(JSONParse(last.raw).items) = 3
    /\ HasBadElement(hkey, JSONParse(last.raw))
    /\ \E i \in DOMAIN JSONParse(last.raw).items :
          Valid(hkey, JSONParse(last.raw).items[i].o)

\* C5: a record that fails schema validation and is passed to append is never
\* an element of the sequence a later read of the key returns.
C5_InvalidNeverRead ==
    /\ \A i \in DOMAIN Read(storage, hkey) : Valid(hkey, Read(storage, hkey)[i])
    /\ last.op = "get" => \A i \in DOMAIN last.ret : Valid(hkey, last.ret[i])
    /\ (last.op = "save" /\ ~Valid(hkey, last.item)) =>
          \A i \in DOMAIN Read(storage, hkey) : Read(storage, hkey)[i] # last.item
C5_Witness ==
    /\ last.op = "save"
    /\ last.writeOk
    /\ ~Valid(hkey, last.item)
    /\ Len(last.before) = 2
    /\ storage[hkey] # Absent

\* C6: when the write inside append fails, append returns the one-element
\* sequence holding only the new record, and the record is not persisted: a
\* later read returns the sequence stored before the call.
C6_AppendWriteFails ==
    (last.op = "save" /\ ~last.writeOk) =>
        /\ last.ret = <<last.item>>
        /\ Read(storage, hkey) = last.before
C6_Witness ==
    /\ last.op = "save"
    /\ ~last.writeOk
    /\ Len(last.before) = 2
    /\ Valid(hkey, last.item)

\* C7: when the write inside remove fails, remove leaves the stored sequence
\* unchanged and returns the stored pre-removal sequence.
C7_RemoveWriteFails ==
    (last.op = "remove" /\ ~last.writeOk) =>
        /\ last.ret = last.before
        /\ Read(storage, hkey) = last.before
C7_Witness ==
    /\ last.op = "remove"
    /\ ~last.writeOk
    /\ Len(last.before) = 3
    /\ last.idx = 1

\* C8: remove(key, index) with an index outside 0..len-1 (index >= len, or any
\* negative index) leaves every previously stored record in place, once each,
\* in the same order.
C8_OutOfRangeHarmless ==
    (last.op = "remove" /\ ~InRange(last.idx, last.before)) =>
        Read(storage, hkey) = last.before

(***************************************************************************)
(* Upload harness: uploadImage applied once to each response.              *)
(***************************************************************************)
UploadInit ==
    /\ resp \in UploadResponses
    /\ upl = NoUpl
    /\ hkey = STORAGE_KEY
    /\ storage = [k \in Keys |-> Absent]
    /\ last = NoCall
    /\ log = EmptyLog
    /\ drain = NoDrain
    /\ PagesIdle

Upload ==
    /\ ~upl.done
    /\ upl' = uploadImage(resp)
    /\ UNCHANGED <<resp, hkey, storage, last, log, drain, pageVars>>

UploadNext == Upload

UploadSpec == UploadInit /\ [][UploadNext]_vars

\* C9: uploadImage returns a value if and only if the response has a success
\* status and its JSON body has status "OK" and a non-empty result, and the
\* value returned is that result; for every other response it throws and
\* returns nothing.
UploadShouldSucceed(r) ==
    /\ r.status \in 200..299
    /\ r.body = "object"
    /\ r.bodyStatus = Str("OK")
    /\ r.result.ty = "string" /\ r.result.s # ""
C9_UploadIff ==
    upl.done =>
        /\ ~upl.thrown <=> UploadShouldSucceed(resp)
        /\ ~upl.thrown => upl.value = resp.result
        /\ upl.thrown => upl.value = Undefined /\ upl.message # ""
C9_Witness ==
    /\ upl.done
    /\ ~upl.thrown
    /\ upl.value = Str("abc123")
    /\ resp.status = 201

(***************************************************************************)
(* The pages: one page component is mounted; the user clicks what the      *)
(* page renders, and suspended handlers resume in any order.               *)
(***************************************************************************)
Suspend(tk) == tasks (+) SetToBag({tk})
Resume(tk) == tasks (-) SetToBag({tk})
RECURSIVE CountOf(_, _)
CountOf(kind, pending) ==
    IF pending = {} THEN 0
    ELSE LET tk == CHOOSE x \in pending : TRUE IN
         (IF tk.kind = kind THEN CopiesIn(tk, tasks) ELSE 0)
             + CountOf(kind, pending \ {tk})
\* The number of suspended handlers of one kind.
InFlight(kind) == CountOf(kind, BagToSet(tasks))
IdleHarness ==
    /\ hkey = STORAGE_KEY
    /\ last = NoCall
    /\ log = EmptyLog
    /\ drain = NoDrain
    /\ resp = NoResp
    /\ upl = NoUpl

\* What the keys hold when the page is opened: the page's own key is absent
\* or holds one record of an earlier visit, the other page's key holds one.
StoredBefore(key) ==
    JSONStringify(<<CHOOSE o \in InputsOf(key) : ItemOk(ValidatorOf(key), o)>>)
KeyOf(p) == IF p = "age" THEN AGE_DETECTION_STORAGE_KEY ELSE STORAGE_KEY

PageInit ==
    /\ IdleHarness
    /\ page \in {"age", "shot"}
    /\ \E own \in {Absent, StoredBefore(KeyOf(page))} :
          storage = [k \in Keys |-> IF k = KeyOf(page) THEN own ELSE StoredBefore(k)]
    /\ agePage = AgeState(IF page = "age" THEN Read(storage, AGE_DETECTION_STORAGE_KEY)
                          ELSE <<>>)
    /\ shotPage = ShotState(IF page = "shot" THEN Read(storage, STORAGE_KEY) ELSE <<>>)
    /\ tasks = EmptyBag

\* ---- AgeDetectionPage ----
\* handleFileChange up to its await: the file input is rendered while there
\* is no imageData.
AgeSelectFile(f) ==
    /\ page = "age"
    /\ ~Truthy(agePage.imageData)
    /\ BagCardinality(tasks) < MaxTasks
    /\ agePage' = [agePage EXCEPT !.file = f]
    /\ tasks' = Suspend(Task("handleFileChange", "encode", f, Null, Null, "", ""))
    /\ UNCHANGED <<storage, harnessVars, page, shotPage>>

\* handleFileChange after fileToBase64 resolved (ok) or rejected.
AgeEncodeDone(tk, ok) ==
    /\ page = "age"
    /\ tk \in BagToSet(tasks)
    /\ tk.kind = "handleFileChange"
    /\ agePage' = IF ok
                  THEN [agePage EXCEPT !.imageData = fileToBase64(tk.file),
                                       !.result = NoResult,
                                       !.error = Null,
                                       !.uploadedImageUrl = Null]
                  ELSE [agePage EXCEPT !.error = Str("Failed to process image")]
    /\ tasks' = Resume(tk)
    /\ UNCHANGED <<storage, harnessVars, page, shotPage>>

\* resetState: the X of the preview (rendered while there is imageData) or
\* "Upload New Image" of the result panel.
AgeReset ==
    /\ page = "age"
    /\ \/ Truthy(agePage.imageData)
       \/ agePage.processingState = "success" /\ agePage.result.set
    /\ agePage' = [agePage EXCEPT !.file = NoFile, !.imageData = Null,
                                  !.result = NoResult, !.error = Null,
                                  !.processingState = "idle",
                                  !.uploadedImageUrl = Null]
    /\ UNCHANGED <<storage, harnessVars, page, shotPage, tasks>>

\* processImage without its early return.
AgeProcess_noCheck ==
    /\ page = "age"
    /\ Truthy(agePage.imageData)
    /\ agePage.processingState \notin {"uploading", "processing"}
    /\ BagCardinality(tasks) < MaxTasks
    /\ Len(Read(storage, AGE_DETECTION_STORAGE_KEY)) + InFlight("processImage") < MaxHistory
    /\ IF ~Truthy(agePage.uploadedImageUrl)
       THEN /\ agePage' = [agePage EXCEPT !.error = Null, !.processingState = "uploading"]
            /\ tasks' = Suspend(Task("processImage", "upload", agePage.file,
                                           agePage.imageData, Null, "", ""))
       ELSE /\ agePage' = [agePage EXCEPT !.error = Null, !.processingState = "processing"]
            /\ tasks' = Suspend(Task("processImage", "detect", agePage.file,
                                           agePage.imageData, agePage.uploadedImageUrl,
                                           "", ""))
    /\ UNCHANGED <<storage, harnessVars, page, shotPage>>

\* processImage up to its first await. The "Detect Age" button is rendered
\* with the preview and disabled while uploading or processing; the handler
\* returns at once when there is no file or no imageData.
AgeProcess ==
    /\ page = "age"
    /\ Truthy(agePage.imageData)
    /\ agePage.processingState \notin {"uploading", "processing"}
    /\ BagCardinality(tasks) < MaxTasks
    /\ Len(Read(storage, AGE_DETECTION_STORAGE_KEY)) + InFlight("processImage") < MaxHistory
    /\ IF agePage.file = NoFile \/ ~Truthy(agePage.imageData)
       THEN UNCHANGED <<agePage, tasks>>
       ELSE IF ~Truthy(agePage.uploadedImageUrl)
       THEN /\ agePage' = [agePage EXCEPT !.error = Null, !.processingState = "uploading"]
            /\ tasks' = Suspend(Task("processImage", "upload", agePage.file,
                                           agePage.imageData, Null, "", ""))
       ELSE /\ agePage' = [agePage EXCEPT !.error = Null, !.processingState = "processing"]
            /\ tasks' = Suspend(Task("processImage", "detect", agePage.file,
                                           agePage.imageData, agePage.uploadedImageUrl,
                                           "", ""))
    /\ UNCHANGED <<storage, harnessVars, page, shotPage>>

\* processImage that uploads again when the upload failed.
AgeUploadDone_retry(tk, response) ==
    /\ page = "age"
    /\ tk \in BagToSet(tasks)
    /\ tk.kind = "processImage" /\ tk.pc = "upload"
    /\ LET r == uploadImage(response) IN
       IF r.thrown
       THEN /\ agePage' = [agePage EXCEPT !.error = Str(r.message)]
            /\ tasks' = tasks
       ELSE /\ agePage' = [agePage EXCEPT !.uploadedImageUrl = r.value,
                                          !.processingState = "processing"]
            /\ tasks' = Resume(tk) (+) SetToBag({[tk EXCEPT !.pc = "detect", !.imageUrl = r.value]})
    /\ UNCHANGED <<storage, harnessVars, page, shotPage>>

\* processImage resumed after uploadImage(file).
AgeUploadDone(tk, response) ==
    /\ page = "age"
    /\ tk \in BagToSet(tasks)
    /\ tk.kind = "processImage" /\ tk.pc = "upload"
    /\ LET r == uploadImage(response) IN
       IF r.thrown
       THEN /\ agePage' = [agePage EXCEPT !.error = Str(r.message),
                                          !.processingState = "error"]
            /\ tasks' = Resume(tk)
       ELSE /\ agePage' = [agePage EXCEPT !.uploadedImageUrl = r.value,
                                          !.processingState = "processing"]
            /\ tasks' = Resume(tk) (+) SetToBag({[tk EXCEPT !.pc = "detect", !.imageUrl = r.value]})
    /\ UNCHANGED <<storage, harnessVars, page, shotPage>>

\* processImage that writes the new record in front of its in-memory history
\* instead of handing it to saveToStorage.
AgeDetectDone_fromMemory(tk, response, t, writeOk) ==
    /\ page = "age"
    /\ tk \in BagToSet(tasks)
    /\ tk.kind = "processImage" /\ tk.pc = "detect"
    /\ LET r == detectAge(response, tk.imageData) IN
       IF r.thrown
       THEN /\ agePage' = [agePage EXCEPT !.error = Str(r.message),
                                          !.processingState = "error"]
            /\ UNCHANGED storage
       ELSE LET historyItem == Obj(Undefined, r.value.age, r.value.predictTime,
                                   r.value.imageData, toISOString(t))
                newItems == <<historyItem>> \o agePage.history
            IN /\ storage' = IF writeOk
                             THEN setItem(storage, AGE_DETECTION_STORAGE_KEY,
                                          JSONStringify(newItems))
                             ELSE storage
               /\ agePage' = [agePage EXCEPT !.history = newItems,
                                             !.result = r.value,
                                             !.processingState = "success"]
    /\ tasks' = Resume(tk)
    /\ UNCHANGED <<harnessVars, page, shotPage>>

\* processImage resumed after detectAge(imageUrl): the record is stamped with
\* the clock value t and saved (writeOk = FALSE: setItem throws).
AgeDetectDone(tk, response, t, writeOk) ==
    /\ page = "age"
    /\ tk \in BagToSet(tasks)
    /\ tk.kind = "processImage" /\ tk.pc = "detect"
    /\ LET r == detectAge(response, tk.imageData) IN
       IF r.thrown
       THEN /\ agePage' = [agePage EXCEPT !.error = Str(r.message),
                                          !.processingState = "error"]
            /\ UNCHANGED storage
       ELSE LET historyItem == Obj(Undefined, r.value.age, r.value.predictTime,
                                   r.value.imageData, toISOString(t))
                out == saveToStorage(storage, AGE_DETECTION_STORAGE_KEY, historyItem,
                                     "ageDetectionResultValidator", writeOk)
            IN /\ storage' = out.st
               /\ agePage' = [agePage EXCEPT !.history = out.ret,
                                             !.result = r.value,
                                             !.processingState = "success"]
    /\ tasks' = Resume(tk)
    /\ UNCHANGED <<harnessVars, page, shotPage>>

\* The expandedIndex after deleting the entry displayed at index.
ExpandedAfterDelete(expandedIndex, index) ==
    IF expandedIndex = index THEN NoIndex
    ELSE IF expandedIndex # NoIndex /\ expandedIndex > index THEN expandedIndex - 1
    ELSE expandedIndex

\* deleteHistoryItem that removes from the key of the screenshots.
AgeDelete_wrongKey(index, writeOk) ==
    /\ page = "age"
    /\ index \in 0..(Len(agePage.history) - 1)
    /\ LET out == removeFromStorage(storage, STORAGE_KEY, index,
                                    "ageDetectionResultValidator", writeOk)
       IN /\ storage' = out.st
          /\ agePage' = [agePage EXCEPT
                            !.history = out.ret,
                            !.expandedIndex = ExpandedAfterDelete(@, index)]
    /\ UNCHANGED <<harnessVars, page, shotPage, tasks>>

\* deleteHistoryItem(index): the trash button of the entry displayed at index.
AgeDelete(index, writeOk) ==
    /\ page = "age"
    /\ index \in 0..(Len(agePage.history) - 1)
    /\ LET out == removeFromStorage(storage, AGE_DETECTION_STORAGE_KEY, index,
                                    "ageDetectionResultValidator", writeOk)
       IN /\ storage' = out.st
          /\ agePage' = [agePage EXCEPT
                            !.history = out.ret,
                            !.expandedIndex = ExpandedAfterDelete(@, index)]
    /\ UNCHANGED <<harnessVars, page, shotPage, tasks>>

\* toggleExpand(index)
AgeToggle(index) ==
    /\ page = "age"
    /\ index \in 0..(Len(agePage.history) - 1)
    /\ agePage' = [agePage EXCEPT
                      !.expandedIndex = IF @ = index THEN NoIndex ELSE index]
    /\ UNCHANGED <<storage, harnessVars, page, shotPage, tasks>>

\* ---- ScreenshotCapture ----
UrlInputs == {"", "  ", "not a url", "https://a.example"}
ApiKeyInputs == {"", "  ", "key"}

\* The URL field, rendered while the state is idle.
ShotSetUrl(u) ==
    /\ page = "shot"
    /\ shotPage.screenshotState = "idle"
    /\ shotPage.url # u
    /\ shotPage' = [shotPage EXCEPT !.url = u]
    /\ UNCHANGED <<storage, harnessVars, page, agePage, tasks>>

\* ApiKeyInput's onKeyChange, rendered in every state.
ShotSetApiKey(k) ==
    /\ page = "shot"
    /\ shotPage.apiKey # k
    /\ shotPage' = [shotPage EXCEPT !.apiKey = k]
    /\ UNCHANGED <<storage, harnessVars, page, agePage, tasks>>

\* captureScreenshot up to its fetch. The button is rendered while the state
\* is idle and disabled unless the URL is valid and the key non-blank.
ShotCapture ==
    /\ page = "shot"
    /\ shotPage.screenshotState = "idle"
    /\ isValidUrl(shotPage.url) /\ trim(shotPage.apiKey) # ""
    /\ BagCardinality(tasks) < MaxTasks
    /\ Len(Read(storage, STORAGE_KEY)) + InFlight("captureScreenshot") < MaxHistory
    /\ shotPage' = [shotPage EXCEPT !.screenshotState = "loading", !.error = Null]
    /\ tasks' = Suspend(Task("captureScreenshot", "fetch", NoFile, Null, Null,
                                   shotPage.url, ""))
    /\ UNCHANGED <<storage, harnessVars, page, agePage>>

\* captureScreenshot resumed after fetch: a non-ok response throws, otherwise
\* the body is read as a blob.
\* Variant for C22: a failed capture request is swallowed and the page keeps
\* showing the loading state.
ShotFetchDone_swallow(tk, response) ==
    /\ page = "shot"
    /\ tk \in BagToSet(tasks)
    /\ tk.kind = "captureScreenshot" /\ tk.pc = "fetch"
    /\ IF ~ResponseOk(response)
       THEN /\ tasks' = Resume(tk)
            /\ UNCHANGED shotPage
       ELSE /\ tasks' = Resume(tk) (+) SetToBag({[tk EXCEPT !.pc = "encode", !.blob = response.blob]})
            /\ UNCHANGED shotPage
    /\ UNCHANGED <<storage, harnessVars, page, agePage>>
ShotFetchDone(tk, response) ==
    /\ page = "shot"
    /\ tk \in BagToSet(tasks)
    /\ tk.kind = "captureScreenshot" /\ tk.pc = "fetch"
    /\ IF ~ResponseOk(response)
       THEN /\ shotPage' = [shotPage EXCEPT !.error = Str(ApiErrorMessage(response.status)),
                                            !.screenshotState = "error"]
            /\ tasks' = Resume(tk)
       ELSE /\ tasks' = Resume(tk) (+) SetToBag({[tk EXCEPT !.pc = "encode", !.blob = response.blob]})
            /\ UNCHANGED shotPage
    /\ UNCHANGED <<storage, harnessVars, page, agePage>>

\* captureScreenshot resumed after blobToBase64(blob) resolved (ok) or
\* rejected: the record is stamped with the clock value t and saved.
ShotEncodeDone(tk, ok, t, writeOk) ==
    /\ page = "shot"
    /\ tk \in BagToSet(tasks)
    /\ tk.kind = "captureScreenshot" /\ tk.pc = "encode"
    /\ IF ~ok
       THEN /\ shotPage' = [shotPage EXCEPT !.error = Str("Unknown error occurred"),
                                            !.screenshotState = "error"]
            /\ UNCHANGED storage
       ELSE LET imageData == blobToBase64(tk.blob)
                newItem == Obj(Str(tk.url), Undefined, Undefined, imageData,
                               toISOString(t))
                out == saveToStorage(storage, STORAGE_KEY, newItem,
                                     "screenshotValidator", writeOk)
            IN /\ storage' = out.st
               /\ shotPage' = [shotPage EXCEPT !.items = out.ret,
                                               !.currentImageData = imageData,
                                               !.screenshotState = "success"]
    /\ tasks' = Resume(tk)
    /\ UNCHANGED <<harnessVars, page, agePage>>

\* resetForm offered in every state, the loading one included.
ShotReset_anyState ==
    /\ page = "shot"
    /\ shotPage.screenshotState # "idle"
    /\ shotPage' = [shotPage EXCEPT !.currentImageData = Null,
                                    !.screenshotState = "idle",
                                    !.error = Null]
    /\ UNCHANGED <<storage, harnessVars, page, agePage, tasks>>

\* resetForm: the X of the preview (success) or "Try Again" (error).
ShotReset ==
    /\ page = "shot"
    /\ shotPage.screenshotState \in {"success", "error"}
    /\ shotPage' = [shotPage EXCEPT !.currentImageData = Null,
                                    !.screenshotState = "idle",
                                    !.error = Null]
    /\ UNCHANGED <<storage, harnessVars, page, agePage, tasks>>

\* deleteScreenshot(index): the trash button of the entry displayed at index.
ShotDelete(index, writeOk) ==
    /\ page = "shot"
    /\ index \in 0..(Len(shotPage.items) - 1)
    /\ LET out == removeFromStorage(storage, STORAGE_KEY, index,
                                    "screenshotValidator", writeOk)
       IN /\ storage' = out.st
          /\ shotPage' = [shotPage EXCEPT
                             !.items = out.ret,
                             !.expandedIndex = ExpandedAfterDelete(@, index)]
    /\ UNCHANGED <<harnessVars, page, agePage, tasks>>

\* toggleExpand(index)
ShotToggle(index) ==
    /\ page = "shot"
    /\ index \in 0..(Len(shotPage.items) - 1)
    /\ shotPage' = [shotPage EXCEPT
                       !.expandedIndex = IF @ = index THEN NoIndex ELSE index]
    /\ UNCHANGED <<storage, harnessVars, page, agePage, tasks>>

PageNext ==
    \/ \E f \in Files : AgeSelectFile(f)
    \/ \E tk \in BagToSet(tasks), ok \in BOOLEAN : AgeEncodeDone(tk, ok)
    \/ AgeReset
    \/ AgeProcess
    \/ \E tk \in BagToSet(tasks) : \E response \in PageUploadResponses(tk.file) :
          AgeUploadDone(tk, response)
    \/ \E tk \in BagToSet(tasks), response \in DetectResponses, t \in ClockValues,
          writeOk \in BOOLEAN : AgeDetectDone(tk, response, t, writeOk)
    \/ \E index \in 0..MaxHistory, writeOk \in BOOLEAN : AgeDelete(index, writeOk)
    \/ \E index \in 0..MaxHistory : AgeToggle(index)
    \/ \E u \in UrlInputs : ShotSetUrl(u)
    \/ \E k \in ApiKeyInputs : ShotSetApiKey(k)
    \/ ShotCapture
    \/ \E tk \in BagToSet(tasks), response \in ScreenshotResponses : ShotFetchDone(tk, response)
    \/ \E tk \in BagToSet(tasks), ok \in BOOLEAN, t \in ClockValues, writeOk \in BOOLEAN :
          ShotEncodeDone(tk, ok, t, writeOk)
    \/ ShotReset
    \/ \E index \in 0..MaxHistory, writeOk \in BOOLEAN : ShotDelete(index, writeOk)
    \/ \E index \in 0..MaxHistory : ShotToggle(index)

PageSpec == PageInit /\ [][PageNext]_vars

\* The pages run with a single file to select.
FlowNext ==
    \/ AgeSelectFile("f1")
    \/ \E tk \in BagToSet(tasks), ok \in BOOLEAN : AgeEncodeDone(tk, ok)
    \/ AgeReset
    \/ AgeProcess
    \/ \E tk \in BagToSet(tasks) : \E response \in PageUploadResponses(tk.file) :
          AgeUploadDone(tk, response)
    \/ \E tk \in BagToSet(tasks), response \in DetectResponses, t \in ClockValues,
          writeOk \in BOOLEAN : AgeDetectDone(tk, response, t, writeOk)
    \/ \E index \in 0..MaxHistory, writeOk \in BOOLEAN : AgeDelete(index, writeOk)
    \/ \E index \in 0..MaxHistory : AgeToggle(index)
    \/ \E u \in UrlInputs : ShotSetUrl(u)
    \/ \E k \in ApiKeyInputs : ShotSetApiKey(k)
    \/ ShotCapture
    \/ \E tk \in BagToSet(tasks), response \in ScreenshotResponses : ShotFetchDone(tk, response)
    \/ \E tk \in BagToSet(tasks), ok \in BOOLEAN, t \in ClockValues, writeOk \in BOOLEAN :
          ShotEncodeDone(tk, ok, t, writeOk)
    \/ ShotReset
    \/ \E index \in 0..MaxHistory, writeOk \in BOOLEAN : ShotDelete(index, writeOk)
    \/ \E index \in 0..MaxHistory : ShotToggle(index)

FlowSpec == PageInit /\ [][FlowNext]_vars

(***************************************************************************)
(* Properties of the pages.                                                *)
(***************************************************************************)
\* The inference failed: HTTP error, status other than "succeeded", or an
\* error that is not null (or absent).
InferenceFailed(r) ==
    \/ r.status \notin 200..299
    \/ r.bodyStatus # Str("succeeded")
    \/ r.error \notin {Null, Undefined}

\* C10: a history record is appended only after the remote call of that
\* operation succeeded: a step of an operation whose upload fails, whose
\* inference fails (HTTP error, status other than "succeeded", or non-null
\* error), whose screenshot request returns a non-success status, or whose
\* encoding fails leaves the stored sequence of the page's key unchanged.
C10_FailureLeavesStore ==
    [][/\ \A tk \in BagToSet(tasks) :
            /\ \A response \in PageUploadResponses(tk.file) :
                  (AgeUploadDone(tk, response) /\ ~UploadShouldSucceed(response))
                      => storage' = storage
            /\ \A response \in DetectResponses, t \in ClockValues, writeOk \in BOOLEAN :
                  (AgeDetectDone(tk, response, t, writeOk) /\ InferenceFailed(response))
                      => storage' = storage
            /\ AgeEncodeDone(tk, FALSE) => storage' = storage
            /\ \A response \in ScreenshotResponses :
                  (ShotFetchDone(tk, response) /\ response.status \notin 200..299)
                      => storage' = storage
            /\ \A t \in ClockValues, writeOk \in BOOLEAN :
                  ShotEncodeDone(tk, FALSE, t, writeOk) => storage' = storage
      ]_vars

\* The inference succeeded as the API documents it: HTTP success, a JSON
\* object with status "succeeded", error null, and metrics.
InferenceSucceeded(r) ==
    /\ r.status \in 200..299
    /\ r.body = "object"
    /\ r.bodyStatus = Str("succeeded")
    /\ r.error = Null
    /\ r.metrics

AgeTransitions ==
    {<<"idle", "uploading">>, <<"uploading", "processing">>, <<"uploading", "error">>,
     <<"processing", "success">>, <<"processing", "error">>,
     <<"success", "idle">>, <<"error", "idle">>}

\* C12: processingState only changes along idle -> uploading -> processing
\* -> success or error (uploading -> error allowed), and from success or
\* error only to idle: uploading is entered only from idle, processing only
\* from uploading, and nothing leaves success or error except to idle.
C12_AgeStateMachine ==
    [][agePage'.processingState # agePage.processingState
          => <<agePage.processingState, agePage'.processingState>> \in AgeTransitions
      ]_vars

\* The transitions of screenshotState the state machine has.
ShotTransitions ==
    {<<"idle", "loading">>, <<"loading", "success">>, <<"loading", "error">>,
     <<"success", "idle">>, <<"error", "idle">>}

\* C13: screenshotState only changes along idle -> loading -> success or
\* error, and from success or error only to idle by resetForm; a capture
\* starts only while the state is idle, and a reset never occurs while the
\* state is loading.
C13_ShotStateMachine ==
    [][/\ shotPage'.screenshotState # shotPage.screenshotState
            => <<shotPage.screenshotState, shotPage'.screenshotState>> \in ShotTransitions
       /\ ShotCapture => shotPage.screenshotState = "idle"
       /\ ShotReset => shotPage.screenshotState \in {"success", "error"}
       /\ shotPage.screenshotState \in {"success", "error"}
              /\ shotPage'.screenshotState = "idle" => ShotReset
      ]_vars
C13_Witness ==
    /\ page = "shot"
    /\ shotPage.screenshotState = "success"
    /\ shotPage.currentImageData = Str("data:png:a")
    /\ Len(shotPage.items) = 2
    /\ tasks = EmptyBag

\* C14: in every reachable state at most one upload/inference operation of
\* the age-detection page and at most one capture of the screenshot page is
\* in flight, under every interleaving of the user actions the page permits
\* with the completions.
C14_OneInFlight ==
    /\ InFlight("processImage") <= 1
    /\ InFlight("captureScreenshot") <= 1

\* The input preconditions of the two triggers.
AgePrecondition == agePage.file # NoFile /\ Truthy(agePage.imageData)
ShotPrecondition ==
    /\ trim(shotPage.url) # ""
    /\ shotPage.url \in UrlStrings
    /\ trim(shotPage.apiKey) # ""

C16_HistoryIsStored ==
    [][/\ \A tk \in BagToSet(tasks), t \in ClockValues, writeOk \in BOOLEAN :
            /\ \A response \in DetectResponses :
                  (AgeDetectDone(tk, response, t, writeOk)
                       /\ ~detectAge(response, tk.imageData).thrown)
                      => agePage'.history = Read(storage', AGE_DETECTION_STORAGE_KEY)
            /\ ShotEncodeDone(tk, TRUE, t, writeOk)
                  => shotPage'.items = Read(storage', STORAGE_KEY)
       /\ \A index \in 0..MaxHistory, writeOk \in BOOLEAN :
            /\ AgeDelete(index, writeOk)
                  => agePage'.history = Read(storage', AGE_DETECTION_STORAGE_KEY)
            /\ ShotDelete(index, writeOk)
                  => shotPage'.items = Read(storage', STORAGE_KEY)
      ]_vars

\* The stored sequence after is the stored sequence before without one
\* occurrence of the record shown.
RemovedExactly(shown, before, after) ==
    \E k \in 0..(Len(before) - 1) : before[k + 1] = shown /\ after = Excise(before, k)

\* C17: a delete(index) whose write succeeds removes from storage exactly the
\* record displayed at position index of the newest-first sorted list at
\* the time of the click, and no other record.
C17_DeleteRemovesShown ==
    [][\A index \in 0..MaxHistory :
          /\ AgeDelete(index, TRUE)
                => RemovedExactly(sortedHistory(agePage.history)[index + 1],
                                  Read(storage, AGE_DETECTION_STORAGE_KEY),
                                  Read(storage', AGE_DETECTION_STORAGE_KEY))
          /\ ShotDelete(index, TRUE)
                => RemovedExactly(sortedHistory(shotPage.items)[index + 1],
                                  Read(storage, STORAGE_KEY),
                                  Read(storage', STORAGE_KEY))
      ]_vars

\* The entry expanded at position e of the displayed list is, after the
\* delete of position index, collapsed (e = index) or expanded at a position
\* that shows the same record (e - 1 when index < e, e when index > e).
ExpansionKept(e, index, shown, e2, shown2) ==
    IF e = index THEN e2 = NoIndex
    ELSE /\ e2 = (IF index < e THEN e - 1 ELSE e)
         /\ e2 < Len(shown2)
         /\ shown2[e2 + 1] = shown[e + 1]

\* C18: after delete(i) while the record at display position e is expanded,
\* the expansion is cleared if e = i and otherwise designates the same
\* record as before the delete, for every outcome of the delete, a failing
\* storage write included.
C18_ExpansionFollowsRecord ==
    [][\A index \in 0..MaxHistory, writeOk \in BOOLEAN :
          /\ (AgeDelete(index, writeOk) /\ agePage.expandedIndex # NoIndex)
                => ExpansionKept(agePage.expandedIndex, index,
                                 sortedHistory(agePage.history),
                                 agePage'.expandedIndex, sortedHistory(agePage'.history))
          /\ (ShotDelete(index, writeOk) /\ shotPage.expandedIndex # NoIndex)
                => ExpansionKept(shotPage.expandedIndex, index,
                                 sortedHistory(shotPage.items),
                                 shotPage'.expandedIndex, sortedHistory(shotPage'.items))
      ]_vars

\* The number of requests of one kind awaiting their response: an upload
\* request (pc "upload"), an inference request ("detect"), a capture ("fetch").
RECURSIVE CountAt(_, _)
CountAt(pc, pending) ==
    IF pending = {} THEN 0
    ELSE LET tk == CHOOSE x \in pending : TRUE IN
         (IF tk.pc = pc THEN CopiesIn(tk, tasks) ELSE 0) + CountAt(pc, pending \ {tk})
Outstanding(pc) == CountAt(pc, BagToSet(tasks))

\* C19: no request is retried: a trigger issues exactly one request, an
\* upload or (with the reference cached) an inference; the only other
\* request issued is the one inference that follows a successful upload of
\* the same operation; a failed request ends its operation and no step other
\* than a new trigger issues a further request.
C19_NoRetry ==
    [][/\ Outstanding("upload")' > Outstanding("upload")
            => AgeProcess /\ Outstanding("upload")' = Outstanding("upload") + 1
                          /\ Outstanding("detect")' = Outstanding("detect")
       /\ Outstanding("detect")' > Outstanding("detect")
            => /\ Outstanding("detect")' = Outstanding("detect") + 1
               /\ \/ AgeProcess /\ Outstanding("upload")' = Outstanding("upload")
                  \/ Outstanding("upload")' = Outstanding("upload") - 1
       /\ Outstanding("fetch")' > Outstanding("fetch")
            => ShotCapture /\ Outstanding("fetch")' = Outstanding("fetch") + 1
       /\ \A tk \in BagToSet(tasks) :
            /\ \A response \in PageUploadResponses(tk.file) :
                  (AgeUploadDone(tk, response) /\ uploadImage(response).thrown)
                      => /\ Outstanding("upload")' = Outstanding("upload") - 1
                         /\ Outstanding("detect")' = Outstanding("detect")
            /\ \A response \in DetectResponses, t \in ClockValues, writeOk \in BOOLEAN :
                  AgeDetectDone(tk, response, t, writeOk)
                      => /\ Outstanding("detect")' = Outstanding("detect") - 1
                         /\ Outstanding("upload")' = Outstanding("upload")
            /\ \A response \in ScreenshotResponses :
                  ShotFetchDone(tk, response)
                      => Outstanding("fetch")' = Outstanding("fetch") - 1
      ]_vars
\* An upload has failed and nothing is pending.
C19_Witness ==
    /\ page = "age"
    /\ agePage.processingState = "error"
    /\ agePage.error = Str("Upload failed: Invalid response")
    /\ tasks = EmptyBag

\* A record of the kind that belongs under the key.
OfKind(key, o) ==
    IF key = STORAGE_KEY
    THEN IsUrl(o.input) /\ o.age = Undefined /\ o.predictTime = Undefined
    ELSE IsString(o.age) /\ IsNumber(o.predictTime) /\ o.input = Undefined
\* Every key is absent or holds an array of records of its own kind.
KeysKeepKind ==
    \A k \in Keys :
        storage[k] # Absent =>
            LET v == JSONParse(storage[k]) IN
            /\ v.ok /\ v.k = "array"
            /\ \A i \in DOMAIN v.items :
                  v.items[i].k = "object" /\ OfKind(k, v.items[i].o)

\* C20: each page touches only its own storage key: no step of the
\* screenshot page changes the value under the age-detection key, no step of
\* the age-detection page changes the value under the screenshot key, and no
\* key ever holds records of both kinds.
C20_OwnKeyOnly ==
    /\ []KeysKeepKind
    /\ [][/\ page = "shot"
              => storage'[AGE_DETECTION_STORAGE_KEY] = storage[AGE_DETECTION_STORAGE_KEY]
          /\ page = "age" => storage'[STORAGE_KEY] = storage[STORAGE_KEY]
         ]_vars
\* The age-detection page has appended to and deleted from its key next to
\* the record of the screenshot page.
C20_Witness ==
    /\ page = "age"
    /\ storage[AGE_DETECTION_STORAGE_KEY] = JSONStringify(<<>>)
    /\ Len(Read(storage, STORAGE_KEY)) = 1
    /\ agePage.processingState = "success"

\* The step ends in the page's error state with an error message.
AgeFailed == agePage'.processingState = "error" /\ Truthy(agePage'.error)
ShotFailed == shotPage'.screenshotState = "error" /\ Truthy(shotPage'.error)

\* C21: every failure of an operation (upload, inference, capture, codec)
\* ends in the page's error state with a non-empty error message; in the
\* error state the reset is enabled, and a reset leads to idle.
C21_FailuresReachError ==
    [][/\ \A tk \in BagToSet(tasks) :
            /\ \A response \in PageUploadResponses(tk.file) :
                  (AgeUploadDone(tk, response) /\ uploadImage(response).thrown)
                      => AgeFailed
            /\ \A response \in DetectResponses, t \in ClockValues, writeOk \in BOOLEAN :
                  (AgeDetectDone(tk, response, t, writeOk)
                       /\ detectAge(response, tk.imageData).thrown) => AgeFailed
            /\ AgeEncodeDone(tk, FALSE) => AgeFailed
            /\ \A response \in ScreenshotResponses :
                  (ShotFetchDone(tk, response) /\ ~ResponseOk(response)) => ShotFailed
            /\ \A t \in ClockValues, writeOk \in BOOLEAN :
                  ShotEncodeDone(tk, FALSE, t, writeOk) => ShotFailed
       /\ agePage.processingState = "error" => ENABLED AgeReset
       /\ shotPage.screenshotState = "error" => ENABLED ShotReset
       /\ AgeReset => agePage'.processingState = "idle"
       /\ ShotReset => shotPage'.screenshotState = "idle"
      ]_vars

\* The response to a pending request arrives, or a pending blob read ends.
FileReadEnds ==
    \E tk \in BagToSet(tasks), ok \in BOOLEAN : AgeEncodeDone(tk, ok)
UploadResolves ==
    \E tk \in BagToSet(tasks) :
        \E response \in PageUploadResponses(tk.file) : AgeUploadDone(tk, response)
InferenceResolves ==
    \E tk \in BagToSet(tasks), response \in DetectResponses,
       t \in ClockValues, writeOk \in BOOLEAN :
        AgeDetectDone(tk, response, t, writeOk)
CaptureResolves ==
    \E tk \in BagToSet(tasks), response \in ScreenshotResponses :
        ShotFetchDone(tk, response)
BlobReadEnds ==
    \E tk \in BagToSet(tasks), ok \in BOOLEAN, t \in ClockValues, writeOk \in BOOLEAN :
        ShotEncodeDone(tk, ok, t, writeOk)

\* The pages under the assumption that pending requests and blob reads of
\* each kind keep being answered; the user is under no obligation to click.
FairFlowSpec ==
    /\ FlowSpec
    /\ WF_vars(FileReadEnds)
    /\ WF_vars(UploadResolves)
    /\ WF_vars(InferenceResolves)
    /\ WF_vars(CaptureResolves)
    /\ WF_vars(BlobReadEnds)

\* C22: with every request and blob read eventually resolving or failing, a
\* page that is uploading, processing or loading eventually reaches success
\* or error.
C22_InFlightEnds ==
    /\ agePage.processingState \in {"uploading", "processing"}
           ~> agePage.processingState \in {"success", "error"}
    /\ shotPage.screenshotState = "loading"
           ~> shotPage.screenshotState \in {"success", "error"}
C22_Witness ==
    /\ page = "age"
    /\ agePage.processingState = "processing"
    /\ Outstanding("detect") = 1
    /\ Outstanding("upload") = 0

\* HTTP-success inference bodies that do not have the declared shape of
\* AgeDetectionResponse: the cast of response.json() checks nothing.
UntypedDetectResponses ==
    {DetectResponse(200, "object", Str("succeeded"), Null, Num("34"), TRUE, Num("1.2")),
     DetectResponse(200, "object", Str("succeeded"), Null, Str("34"), TRUE, Str("fast"))}

\* The pages against a remote API that may also answer with such bodies.
UntypedNext ==
    \/ FlowNext
    \/ \E tk \in BagToSet(tasks), response \in UntypedDetectResponses,
          t \in ClockValues, writeOk \in BOOLEAN :
          AgeDetectDone(tk, response, t, writeOk)
UntypedSpec == PageInit /\ [][UntypedNext]_vars

\* The text under key passes the validator of key, and reads as one record
\* more than before.
AppendKept(key) ==
    /\ storage'[key] # Absent
    /\ safeParse(ValidatorOf(key), JSONParse(storage'[key])).success
    /\ Len(Read(storage', key)) = Len(Read(storage, key)) + 1

\* C23: whatever HTTP-success response the remote API returns, the value a
\* page persists passes the validator of its key: after an append whose
\* write succeeds the next read returns the new record and all records that
\* were stored before.
C23_PersistedIsValid ==
    [][\A tk \in BagToSet(tasks), t \in ClockValues :
          /\ \A response \in DetectResponses \cup UntypedDetectResponses :
                (/\ AgeDetectDone(tk, response, t, TRUE)
                 /\ ~detectAge(response, tk.imageData).thrown)
                    => AppendKept(AGE_DETECTION_STORAGE_KEY)
          /\ ShotEncodeDone(tk, TRUE, t, TRUE) => AppendKept(STORAGE_KEY)
      ]_vars

\* expandedIndex is null or the index of an entry of history.
InRangeOf(expandedIndex, history) ==
    expandedIndex = NoIndex \/ expandedIndex \in 0..(Len(history) - 1)

\* C24: on both pages expandedIndex is null or an index of an existing entry
\* of the in-memory history, whatever expands, appends and deletes happened
\* and whether or not their writes succeeded.
C24_ExpandedInRange ==
    /\ InRangeOf(agePage.expandedIndex, agePage.history)
    /\ InRangeOf(shotPage.expandedIndex, shotPage.items)

\* The record expanded at position e of the list shown is expanded at
\* position e2 of the list shown afterwards.
SameExpanded(e, shown, e2, shown2) ==
    (e # NoIndex /\ e < Len(shown)) =>
        /\ e2 # NoIndex /\ e2 < Len(shown2)
        /\ shown2[e2 + 1] = shown[e + 1]

\* C25: when a record is appended to the history while a record is expanded,
\* the expansion afterwards designates the same record as before the append.
C25_ExpansionSurvivesAppend ==
    [][\A tk \in BagToSet(tasks), t \in ClockValues, writeOk \in BOOLEAN :
          /\ \A response \in DetectResponses :
                (/\ AgeDetectDone(tk, response, t, writeOk)
                 /\ ~detectAge(response, tk.imageData).thrown)
                    => SameExpanded(agePage.expandedIndex, sortedHistory(agePage.history),
                                    agePage'.expandedIndex, sortedHistory(agePage'.history))
          /\ ShotEncodeDone(tk, TRUE, t, writeOk)
                => SameExpanded(shotPage.expandedIndex, sortedHistory(shotPage.items),
                                shotPage'.expandedIndex, sortedHistory(shotPage'.items))
      ]_vars

\* The reference an inference request carries is the one handed out for the
\* file whose encoding the request's handler holds.
RefMatchesImage(tk) ==
    \E f \in Files : tk.imageData = fileToBase64(f) /\ tk.imageUrl = RemoteRef(f)

\* C26: a non-null uploadedImageUrl is the reference returned by uploading
\* the currently selected file, and every inference request carries the
\* reference of the file whose encoded image goes into the resulting record,
\* under every interleaving of selections, resets and completions.
C26_ReferenceOfSelectedFile ==
    /\ Truthy(agePage.uploadedImageUrl) =>
          /\ agePage.file # NoFile
          /\ agePage.uploadedImageUrl = RemoteRef(agePage.file)
    /\ \A tk \in BagToSet(tasks) :
          (tk.kind = "processImage" /\ tk.pc = "detect") => RefMatchesImage(tk)

\* C27: whenever file and imageData are both non-null, imageData is the
\* encoding of that file, in whatever order the reads of selected files end.
C27_ImageOfSelectedFile ==
    (agePage.file # NoFile /\ Truthy(agePage.imageData))
        => agePage.imageData = fileToBase64(agePage.file)

\* C28: the order in which a history is displayed (newest createdAt first,
\* ties in stored order) is the order in which it is held and stored, for
\* every sequence of appends and deletes and every clock value, equal and
\* decreasing ones included.
C28_DisplayedIsStoredOrder ==
    /\ sortedHistory(agePage.history) = agePage.history
    /\ sortedHistory(shotPage.items) = shotPage.items
    /\ \A k \in Keys : sortedHistory(Read(storage, k)) = Read(storage, k)

\* C29: on both pages an error message is present exactly in the error
\* state, in every reachable state.
C29_ErrorIffErrorState ==
    /\ agePage.error # Null <=> agePage.processingState = "error"
    /\ shotPage.error # Null <=> shotPage.screenshotState = "error"

\* A second instance of the page (another tab of the same origin) shares the
\* storage and nothing else. The record it appends at clock value t:
OtherTabItem(key, t) ==
    IF key = STORAGE_KEY
    THEN Obj(Str("https://b.example"), Undefined, Undefined, blobToBase64("png:b"),
             toISOString(t))
    ELSE Obj(Undefined, Str("7"), Num("0.5"), fileToBase64("f2"), toISOString(t))
KindOf(p) == IF p = "age" THEN "processImage" ELSE "captureScreenshot"

\* The other tab completes an operation at clock value t: its whole append
\* runs between two steps of this tab.
OtherTabAppend(t) ==
    /\ Len(Read(storage, KeyOf(page))) + InFlight(KindOf(page)) < MaxHistory
    /\ storage' = saveToStorage(storage, KeyOf(page), OtherTabItem(KeyOf(page), t),
                                ValidatorOf(KeyOf(page)), TRUE).st
    /\ UNCHANGED <<harnessVars, pageVars>>

TabsNext ==
    \/ FlowNext
    \/ OtherTabAppend(2)
TabsSpec == PageInit /\ [][TabsNext]_vars

\* The stored sequence of key after the step is made from the one stored
\* before the step.
AppendedToStored(key, item) ==
    Read(storage', key) = <<item>> \o Read(storage, key)
RemovedFromStored(key, index) ==
    Read(storage', key) =
        IF InRange(index, Read(storage, key)) THEN Excise(Read(storage, key), index)
        ELSE Read(storage, key)

\* C30: append and remove work on the sequence read from storage at call
\* time, not on the in-memory copy of the page: while two instances of a
\* page interleave whole operations on one key with successful writes, every
\* append puts its record in front of what is stored at that moment, so no
\* appended record is lost or stored twice, and every remove takes one entry
\* out of what is stored at that moment.
C30_FreshReadPerCall ==
    [][/\ \A tk \in BagToSet(tasks), t \in ClockValues :
             /\ \A response \in DetectResponses :
                   (/\ AgeDetectDone(tk, response, t, TRUE)
                    /\ ~detectAge(response, tk.imageData).thrown)
                       => AppendedToStored(AGE_DETECTION_STORAGE_KEY,
                             Obj(Undefined, response.output, response.predict_time,
                                 tk.imageData, toISOString(t)))
             /\ ShotEncodeDone(tk, TRUE, t, TRUE)
                   => AppendedToStored(STORAGE_KEY,
                         Obj(Str(tk.url), Undefined, Undefined, blobToBase64(tk.blob),
                             toISOString(t)))
       /\ \A t \in ClockValues :
             OtherTabAppend(t)
                => AppendedToStored(KeyOf(page), OtherTabItem(KeyOf(page), t))
       /\ \A index \in 0..MaxHistory :
             /\ AgeDelete(index, TRUE)
                   => RemovedFromStored(AGE_DETECTION_STORAGE_KEY, index)
             /\ ShotDelete(index, TRUE) => RemovedFromStored(STORAGE_KEY, index)
      ]_vars
\* This tab appended its record in front of one that the other tab had
\* appended after this tab read its history.
C30_Witness ==
    /\ page = "age"
    /\ agePage.processingState = "success"
    /\ Len(Read(storage, AGE_DETECTION_STORAGE_KEY)) = 2
    /\ Read(storage, AGE_DETECTION_STORAGE_KEY)[1].imageData = fileToBase64("f1")
    /\ Read(storage, AGE_DETECTION_STORAGE_KEY)[2].imageData = fileToBase64("f2")
    /\ agePage.history = Read(storage, AGE_DETECTION_STORAGE_KEY)

====
